---------------------------- MODULE Spec2Model ----------------------------
(***************************************************************************)
(* A model of wanglabpy/npstructs.py: the per-frame pipeline               *)
(* preprocess_image -> find_structs -> locate, and the batch driver        *)
(* locate_nps_multiple_images that fans it out over a process pool.        *)
(*                                                                         *)
(* Images that only pass through numeric library filters (white_tophat,    *)
(* gaussian, sobel, ...) are symbolic terms: the raw frame and the list of *)
(* filter applications, each with the parameter it was given.  Label       *)
(* rasters and contours are concrete.                                      *)
(***************************************************************************)
EXTENDS Integers, Sequences, FiniteSets, TLC

(***************************************************************************)
(* Bounds of the model.                                                    *)
(***************************************************************************)
MaxFrames == 4      \* longest image stack handed to the batch driver
MaxProcs  == 2      \* largest mps.cpu_count() considered
MaxTimes  == 3      \* largest number of smoothing passes
MaxRows   == 4      \* rows of the rasters handed to locate
MaxCols   == 4      \* columns of the rasters handed to locate
MaxPixels == 4      \* pixels of the images handed to bwimage_by_threshold
MaxVerts  == 3      \* vertices of the polygons handed to polyarea
MaxMaskPixels == 9  \* pixels of the edge masks handed to the hole filling

NoValue == "None"   \* Python's None

(***************************************************************************)
(* Small arithmetic helpers: floats that arise here are rationals, kept    *)
(* as reduced fractions [n, d] with d > 0.                                 *)
(***************************************************************************)
Abs(v) == IF v < 0 THEN -v ELSE v

RECURSIVE Gcd(_, _)
Gcd(a, b) == IF b = 0 THEN a ELSE Gcd(b, a % b)

Frac(n, d) ==
    LET g == Gcd(Abs(n), d) IN
    IF g = 0 THEN [n |-> 0, d |-> 1] ELSE [n |-> n \div g, d |-> d \div g]

\* float(i) for an int i, as np.array(res) stores the frame id
ToFloat(i) == Frac(i, 1)

\* astype('int') of a float: truncation toward zero
ToInt(q) == IF q.n >= 0 THEN q.n \div q.d ELSE -((-q.n) \div q.d)

RECURSIVE SumSeq(_)
SumSeq(s) == IF s = <<>> THEN 0 ELSE Head(s) + SumSeq(Tail(s))

\* np.mean of a column of integers
Mean(s) == Frac(SumSeq(s), Len(s))

\* np.roll(s, 1): the last element moves to the front
Roll1(s) == IF s = <<>> THEN s ELSE <<s[Len(s)]>> \o SubSeq(s, 1, Len(s) - 1)

\* np.dot of two equally long vectors
Dot(a, b) == SumSeq([i \in 1..Len(a) |-> a[i] * b[i]])

(***************************************************************************)
(* Rasters: a sequence of rows; At reads with numpy's 0-based indices.     *)
(***************************************************************************)
NRows(a) == Len(a)
NCols(a) == IF Len(a) = 0 THEN 0 ELSE Len(a[1])
At(a, r, c) == a[r + 1][c + 1]

ZeroRaster(h, w) == [r \in 1..h |-> [c \in 1..w |-> 0]]

\* a raster that is 0 except for label lab on rows r0..r0+h-1, columns c0..c0+w-1
\* (0-based)
RectRaster(nr, nc, r0, c0, h, w, lab) ==
    [r \in 1..nr |-> [c \in 1..nc |->
        IF r - 1 >= r0 /\ r - 1 < r0 + h /\ c - 1 >= c0 /\ c - 1 < c0 + w
        THEN lab ELSE 0]]

\* pixelwise maximum of two rasters of one shape
Overlay(a, b) ==
    [r \in 1..NRows(a) |-> [c \in 1..NCols(a) |->
        IF a[r][c] >= b[r][c] THEN a[r][c] ELSE b[r][c]]]

(***************************************************************************)
(* skimage.measure.find_contours(array, level): marching squares.  Every   *)
(* 2x2 square of pixels gives zero, one or two directed segments between   *)
(* the points where the iso-line crosses its sides; the segments are then  *)
(* chained into contours.  A point is <<row, column>>.                     *)
(***************************************************************************)
\* position of the level between two neighbouring pixels, as a fraction of
\* their distance.  With level 0 and labels >= 0 a crossed side has one pixel
\* at 0 and the other above it, so the fraction is 0 or 1 and the crossing
\* lies on the background pixel.
get_fraction(from_value, to_value, level) ==
    IF to_value = from_value THEN 0
    ELSE (level - from_value) \div (to_value - from_value)

square_segments(array, level, r0, c0) ==
    LET r1 == r0 + 1
        c1 == c0 + 1
        ul == At(array, r0, c0)
        ur == At(array, r0, c1)
        ll == At(array, r1, c0)
        lr == At(array, r1, c1)
        square_case == (IF ul > level THEN 1 ELSE 0) + (IF ur > level THEN 2 ELSE 0)
                     + (IF ll > level THEN 4 ELSE 0) + (IF lr > level THEN 8 ELSE 0)
        top    == <<r0, get_fraction(ul, ur, level) + c0>>
        bottom == <<r1, get_fraction(ll, lr, level) + c0>>
        left   == <<get_fraction(ul, ll, level) + r0, c0>>
        right  == <<get_fraction(ur, lr, level) + r0, c1>>
    IN  CASE square_case = 1  -> << <<top, left>> >>
          [] square_case = 2  -> << <<right, top>> >>
          [] square_case = 3  -> << <<right, left>> >>
          [] square_case = 4  -> << <<left, bottom>> >>
          [] square_case = 5  -> << <<top, bottom>> >>
          [] square_case = 6  -> << <<right, top>>, <<left, bottom>> >>
          [] square_case = 7  -> << <<right, bottom>> >>
          [] square_case = 8  -> << <<bottom, right>> >>
          [] square_case = 9  -> << <<top, left>>, <<bottom, right>> >>
          [] square_case = 10 -> << <<bottom, top>> >>
          [] square_case = 11 -> << <<bottom, left>> >>
          [] square_case = 12 -> << <<left, right>> >>
          [] square_case = 13 -> << <<top, right>> >>
          [] square_case = 14 -> << <<left, top>> >>
          [] OTHER            -> << >>

\* the segments of all squares, rows outermost, in scan order
RECURSIVE contour_segments_from(_, _, _)
contour_segments_from(array, level, k) ==
    LET w == NCols(array) - 1
        n == (NRows(array) - 1) * w
    IN  IF NRows(array) < 2 \/ w < 1 \/ k >= n THEN << >>
        ELSE square_segments(array, level, k \div w, k % w)
                \o contour_segments_from(array, level, k + 1)

get_contour_segments(array, level) == contour_segments_from(array, level, 0)

\* Python dicts as functions
DictPut(d, k, v) == [x \in (DOMAIN d) \cup {k} |-> IF x = k THEN v ELSE d[x]]
DictDel(d, k) == [x \in (DOMAIN d) \ {k} |-> d[x]]
EmptyDict == [x \in {} |-> 0]

EmptyAssembly == [contours |-> EmptyDict, starts |-> EmptyDict,
                  ends |-> EmptyDict, current_index |-> 0]

\* one iteration of the loop of _assemble_contours
assemble_segment(st, seg) ==
    LET from_point == seg[1]
        to_point   == seg[2]
        has_tail   == to_point \in DOMAIN st.starts
        has_head   == from_point \in DOMAIN st.ends
        tail_num   == st.starts[to_point]
        head_num   == st.ends[from_point]
        starts0    == IF has_tail THEN DictDel(st.starts, to_point) ELSE st.starts
        ends0      == IF has_head THEN DictDel(st.ends, from_point) ELSE st.ends
    IN  IF from_point = to_point THEN st          \* degenerate segment
        ELSE IF has_tail /\ has_head THEN
            IF tail_num = head_num THEN
                \* the contour closes: its first point is appended again
                [st EXCEPT !.contours = DictPut(@, head_num,
                                                Append(@[head_num], to_point)),
                           !.starts = starts0, !.ends = ends0]
            ELSE IF tail_num > head_num THEN
                LET joined == st.contours[head_num] \o st.contours[tail_num] IN
                [st EXCEPT !.contours = DictPut(DictDel(@, tail_num), head_num, joined),
                           !.starts = DictPut(starts0, joined[1], head_num),
                           !.ends = DictPut(ends0, joined[Len(joined)], head_num)]
            ELSE
                LET joined == st.contours[head_num] \o st.contours[tail_num] IN
                [st EXCEPT !.contours = DictPut(DictDel(@, head_num), tail_num, joined),
                           !.starts = DictPut(starts0, joined[1], tail_num),
                           !.ends = DictPut(ends0, joined[Len(joined)], tail_num)]
        ELSE IF ~has_tail /\ ~has_head THEN
            [contours |-> DictPut(st.contours, st.current_index, <<from_point, to_point>>),
             starts |-> DictPut(starts0, from_point, st.current_index),
             ends |-> DictPut(ends0, to_point, st.current_index),
             current_index |-> st.current_index + 1]
        ELSE IF ~has_head THEN
            [st EXCEPT !.contours = DictPut(@, tail_num, <<from_point>> \o @[tail_num]),
                       !.starts = DictPut(starts0, from_point, tail_num),
                       !.ends = ends0]
        ELSE
            [st EXCEPT !.contours = DictPut(@, head_num, Append(@[head_num], to_point)),
                       !.starts = starts0,
                       !.ends = DictPut(ends0, to_point, head_num)]

RECURSIVE assemble_from(_, _, _)
assemble_from(st, segments, i) ==
    IF i > Len(segments) THEN st
    ELSE assemble_from(assemble_segment(st, segments[i]), segments, i + 1)

\* the contours sorted by the index under which each was created
RECURSIVE sorted_contours(_, _)
sorted_contours(contours, k) ==
    IF DOMAIN contours = {} THEN << >>
    ELSE IF k \in DOMAIN contours
         THEN <<contours[k]>> \o sorted_contours(DictDel(contours, k), k + 1)
         ELSE sorted_contours(contours, k + 1)

assemble_contours(segments) ==
    sorted_contours(assemble_from(EmptyAssembly, segments, 1).contours, 0)


(***************************************************************************)
(* Outcomes of a call: a returned value or a raised exception.             *)
(***************************************************************************)
Ok(v) == [raised |-> FALSE, value |-> v]
Raise(type, where) == [raised |-> TRUE, value |-> [exc |-> type, raised_in |-> where]]

(***************************************************************************)
(* The frames of the model.  A frame is known by its name; Scene gives the *)
(* label raster that the segmentation finds in it (the numeric filters are *)
(* not computed), and "malformed" is an input that is not a 2-D raster, on *)
(* which the first library filter raises.                                  *)
(***************************************************************************)
FrameLib == {"blank", "one", "two", "malformed"}

Scene(name) ==
    CASE name = "one" -> RectRaster(4, 7, 1, 2, 2, 2, 1)
      [] name = "two" -> Overlay(RectRaster(4, 7, 1, 1, 2, 1, 1),
                                 RectRaster(4, 7, 1, 4, 1, 2, 2))
      [] OTHER        -> ZeroRaster(4, 7)

\* the number of structures in each frame, as counted by eye
NStructs(name) ==
    CASE name = "one" -> 1
      [] name = "two" -> 2
      [] OTHER        -> 0

\* find_contours, with the contours of the scenes computed once
SceneContours ==
    [a \in {Scene(f) : f \in FrameLib} |-> assemble_contours(get_contour_segments(a, 0))]

find_contours(array, level) ==
    IF level = 0 /\ array \in DOMAIN SceneContours
    THEN SceneContours[array]
    ELSE assemble_contours(get_contour_segments(array, level))

\* an array computed from a frame: the frame and the filters applied so far
RawImage(name) == [frame |-> name, ops |-> << >>]
Apply(image, op, param) == [image EXCEPT !.ops = Append(@, <<op, param>>)]

(***************************************************************************)
(* The preprocessing steps.                                                *)
(***************************************************************************)
background_subtraction(image, ball_size) ==
    IF image.frame = "malformed" THEN Raise("RuntimeError", "white_tophat")
    ELSE Ok(Apply(image, "white_tophat", ball_size))

\* a smoothing loop that filters the loop's input on every pass, not the
\* previous pass's output
smooth_loop_restart(image_sm, sigma, times, i) ==
    IF i >= times THEN image_sm ELSE Apply(image_sm, "gaussian", sigma)

RECURSIVE smooth_loop(_, _, _, _)
smooth_loop(image_sm, sigma, times, i) ==
    IF i >= times THEN image_sm
    ELSE smooth_loop(Apply(image_sm, "gaussian", sigma), sigma, times, i + 1)

smooth_image(image, sigma, times) == Ok(smooth_loop(image, sigma, times, 0))

scale_image_intensity(image, scfactor) == Ok(Apply(image, "scale", scfactor))

\* a comparison that leaves out the pixels equal to the threshold
threshold_pixels_strict(pixels, threshold) ==
    [r \in 1..Len(pixels) |-> [c \in 1..Len(pixels[r]) |->
        ToFloat(IF pixels[r][c] > threshold THEN 1 ELSE 0)]]

\* (image >= threshold) * 1.0 on an array of numbers: the comparison gives a
\* boolean per pixel, the product with 1.0 the float 1.0 or 0.0
threshold_pixels(pixels, threshold) ==
    [r \in 1..Len(pixels) |-> [c \in 1..Len(pixels[r]) |->
        ToFloat(IF pixels[r][c] >= threshold THEN 1 ELSE 0)]]

\* an image whose pixels are known carries them in the field pixels
bwimage_by_threshold(image, threshold) ==
    Ok(IF "pixels" \in DOMAIN image
       THEN [Apply(image, "threshold", threshold) EXCEPT
                !.pixels = threshold_pixels(@, threshold)]
       ELSE Apply(image, "threshold", threshold))

preprocess_image(image, ball_size, sigma, times, scfactor, threshold, output_detail) ==
    LET image_rmbg == background_subtraction(image, ball_size) IN
    IF image_rmbg.raised THEN image_rmbg ELSE
    LET image_sm == smooth_image(image_rmbg.value, sigma, times) IN
    IF image_sm.raised THEN image_sm ELSE
    LET image_sm_rmbg == background_subtraction(image_sm.value, ball_size) IN
    IF image_sm_rmbg.raised THEN image_sm_rmbg ELSE
    LET image_sm_rmbg_sc == scale_image_intensity(image_sm_rmbg.value, scfactor) IN
    IF image_sm_rmbg_sc.raised THEN image_sm_rmbg_sc ELSE
    LET bwimage == bwimage_by_threshold(image_sm_rmbg_sc.value, threshold) IN
    IF bwimage.raised THEN bwimage ELSE
    IF output_detail
    THEN Ok(<<bwimage.value, image_rmbg.value, image_sm.value,
              image_sm_rmbg.value, image_sm_rmbg_sc.value>>)
    ELSE bwimage

(***************************************************************************)
(* find_structs: the morphological steps are recorded on the term; the     *)
(* label raster is the frame's scene.  skimage.morphology.square(n) is     *)
(* np.ones((n, n)), which raises ValueError for a negative n.              *)
(***************************************************************************)
find_structs(bwimage, dilation_size, erosion_size, min_struct_size) ==
    LET edges == Apply(bwimage, "sobel", 0)
        dilated == Apply(edges, "dilation", dilation_size)
        smallobjremoved == Apply(dilated, "remove_small_objects", min_struct_size)
        filled == Apply(smallobjremoved, "flood", 0)
        erosed == Apply(filled, "erosion", erosion_size)
        smallobjremoved2 == Apply(erosed, "remove_small_objects", min_struct_size)
        markers == Apply(smallobjremoved2, "label", 0)
        struct_labels == Apply(markers, "watershed", 0)
    IN  IF dilation_size < 0 THEN Raise("ValueError", "dilation")
        ELSE IF erosion_size < 0 THEN Raise("ValueError", "erosion")
        ELSE Ok([frame |-> struct_labels.frame, ops |-> struct_labels.ops,
                 raster |-> Scene(struct_labels.frame)])

(***************************************************************************)
(* polyarea and locate.  A pandas.DataFrame is its column names and rows.  *)
(***************************************************************************)
Column(contour, k) == [i \in 1..Len(contour) |-> contour[i][k]]

\* the Shoelace sum without the absolute value
polyarea_signed(x, y) == Frac(Dot(x, Roll1(y)) - Dot(y, Roll1(x)), 2)

polyarea(x, y) == Frac(Abs(Dot(x, Roll1(y)) - Dot(y, Roll1(x))), 2)

EmptyDataFrame == [columns |-> << >>, rows |-> << >>]

\* one entry of res: the centre of a contour, its area and the frame.
\* np.array(res) makes every entry a float; astype turns frame back into an int
struct_row(contour, frame) ==
    [x     |-> Mean(Column(contour, 1)),
     y     |-> Mean(Column(contour, 2)),
     size  |-> polyarea(Column(contour, 1), Column(contour, 2)),
     frame |-> ToInt(ToFloat(frame))]

\* res after the loop over the contours
struct_rows(contours, frame) ==
    [i \in 1..Len(contours) |-> struct_row(contours[i], frame)]

\* locate with a null record standing in for "no contour"
locate_placeholder(struct_labels, frame) ==
    LET res == struct_rows(find_contours(struct_labels.raster, 0), frame)
    IN  [columns |-> <<"x", "y", "size", "frame">>,
         rows |-> IF Len(res) > 0 THEN res
                  ELSE << [x |-> Frac(0, 1), y |-> Frac(0, 1), size |-> Frac(0, 1),
                           frame |-> frame] >>]

\* locate that leaves out the last contour
locate_droplast(struct_labels, frame) ==
    LET contours == find_contours(struct_labels.raster, 0)
        res == struct_rows(SubSeq(contours, 1, Len(contours) - 1), frame)
    IN  IF Len(res) > 0
        THEN [columns |-> <<"x", "y", "size", "frame">>, rows |-> res]
        ELSE EmptyDataFrame

locate(struct_labels, frame) ==
    LET res == struct_rows(find_contours(struct_labels.raster, 0), frame)
    IN  IF Len(res) > 0
        THEN [columns |-> <<"x", "y", "size", "frame">>, rows |-> res]
        ELSE EmptyDataFrame

(***************************************************************************)
(* get_struct_sizes: the pixel counts of the labels.                       *)
(***************************************************************************)
Cells(a) == {<<r, c>> : r \in 1..NRows(a), c \in 1..NCols(a)}

\* np.max of a non-empty array
ArrayMax(a) == CHOOSE m \in {a[p[1]][p[2]] : p \in Cells(a)} :
                   \A p \in Cells(a) : a[p[1]][p[2]] <= m

\* np.sum(a == i)
CountEqual(a, i) == Cardinality({p \in Cells(a) : a[p[1]][p[2]] = i})

\* the loop runs over range(1, n_structs): i = 1 .. n_structs - 1
get_struct_sizes(struct_labels) ==
    IF ArrayMax(struct_labels.raster) = 0 THEN <<0>>
    ELSE [i \in 1..(ArrayMax(struct_labels.raster) - 1) |->
             CountEqual(struct_labels.raster, i)]

(***************************************************************************)
(* The hole filling of find_structs (line 128) on a concrete edge mask:    *)
(* filled = 1 - flood(smallobjremoved, (0,0)).  skimage.morphology.flood   *)
(* returns the mask of the pixels that have the value of the seed pixel    *)
(* and are connected to it; without a connectivity argument the            *)
(* neighbourhood is the full one (the 8 surrounding pixels).               *)
(***************************************************************************)
Neighbours(p, q) == p # q /\ Abs(p[1] - q[1]) <= 1 /\ Abs(p[2] - q[2]) <= 1

\* the pixels connected to the ones reached so far through pixels of the value
RECURSIVE flood_grow(_, _, _)
flood_grow(image, value, reached) ==
    IF \E q \in Cells(image) \ reached :
            image[q[1]][q[2]] = value /\ \E p \in reached : Neighbours(p, q)
    THEN flood_grow(image, value,
                    reached \cup {q \in Cells(image) :
                        image[q[1]][q[2]] = value /\ \E p \in reached : Neighbours(p, q)})
    ELSE reached

\* the boolean mask of a set of pixels
MaskOf(image, pixels) ==
    [r \in 1..NRows(image) |-> [c \in 1..NCols(image) |-> <<r, c>> \in pixels]]

\* flood(image, seed_point) with a 0-based seed point
flood(image, seed_point) ==
    MaskOf(image, flood_grow(image, At(image, seed_point[1], seed_point[2]),
                             {<<seed_point[1] + 1, seed_point[2] + 1>>}))

\* 1 - mask for a boolean mask
OneMinus(mask) ==
    [r \in 1..NRows(mask) |-> [c \in 1..NCols(mask) |-> IF mask[r][c] THEN 0 ELSE 1]]

\* line 128
filled(smallobjremoved) == OneMinus(flood(smallobjremoved, <<0, 0>>))

(***************************************************************************)
(* get_starting_frame.  It returns an int or, by falling off its end, None *)
(* (lines 242-244); the two kinds of value are told apart by their type.   *)
(***************************************************************************)
PyNone == [type |-> "NoneType"]
PyInt(i) == [type |-> "int", value |-> i]

\* the loop over i in range(len(frames)-1), from i on; frames[i] of the source
\* is frames[i + 1] here
RECURSIVE starting_frame_loop(_, _, _)
starting_frame_loop(frames, threshold, i) ==
    IF i >= Len(frames) - 1 THEN PyNone
    ELSE IF ArrayMax(frames[i + 1]) < threshold /\ ArrayMax(frames[i + 2]) >= threshold
         THEN PyInt(i + 1)
         ELSE starting_frame_loop(frames, threshold, i + 1)

\* a scan that takes the first frame at or above the threshold, whatever the
\* frame before it
get_starting_frame_bright(frames, threshold) ==
    IF \E j \in 2..Len(frames) : ArrayMax(frames[j]) >= threshold
    THEN PyInt((CHOOSE j \in 2..Len(frames) :
                    /\ ArrayMax(frames[j]) >= threshold
                    /\ \A k \in 2..(j - 1) : ArrayMax(frames[k]) < threshold) - 1)
    ELSE PyNone

get_starting_frame(frames, threshold) == starting_frame_loop(frames, threshold, 0)

(***************************************************************************)
(* locate_nps_single_image: the three stages for one frame.  The result is *)
(* the pair (structs, struct_labels).                                      *)
(***************************************************************************)
locate_nps_single_image(raw_image, frame_id, ball_size, sigma, times, scfactor, threshold, dilation_size, erosion_size, min_struct_size) ==
    LET bwimage == preprocess_image(raw_image, ball_size, sigma, times, scfactor,
                                    threshold, FALSE) IN
    IF bwimage.raised THEN bwimage ELSE
    LET struct_labels == find_structs(bwimage.value, dilation_size, erosion_size,
                                      min_struct_size) IN
    IF struct_labels.raised THEN struct_labels ELSE
    LET structs == locate(struct_labels.value, frame_id) IN
    Ok(<<structs, struct_labels.value>>)


(***************************************************************************)
(* multiprocessing.Pool.starmap, as far as the driver relies on it.        *)
(***************************************************************************)
\* Pool._map_async: the chunk size for an iterable of the given length
map_chunksize(length, nprocs) ==
    LET chunksize == length \div (nprocs * 4)
        extra == length % (nprocs * 4)
    IN  IF length = 0 THEN 0
        ELSE IF extra # 0 THEN chunksize + 1 ELSE chunksize

\* MapResult keeps its results and, after a failure, the exception in the one
\* attribute _value; here they are the fields value and exception.  An entry
\* of value that is still None is the empty tuple.
NoEntry == << >>
NoException == [exc |-> NoValue, raised_in |-> NoValue]

\* MapResult.__init__
MapResult_init(chunksize, length) ==
    IF chunksize <= 0
    THEN [success |-> TRUE, value |-> [i \in 1..length |-> NoEntry],
          exception |-> NoException,
          chunksize |-> chunksize, number_left |-> 0, event |-> TRUE]
    ELSE [success |-> TRUE, value |-> [i \in 1..length |-> NoEntry],
          exception |-> NoException,
          chunksize |-> chunksize,
          number_left |-> (length \div chunksize)
                          + (IF length % chunksize # 0 THEN 1 ELSE 0),
          event |-> FALSE]

\* value[lo:lo+len(part)] = part, with 0-based lo
SliceAssign(value, lo, part) ==
    [k \in 1..Len(value) |->
        IF k > lo /\ k <= lo + Len(part) THEN part[k - lo] ELSE value[k]]

\* _set that stores a chunk where the chunks before it in arrival order end
MapResult_set_arrival(res, i, success, result) ==
    LET left == res.number_left - 1
        chunks == (Len(res.value) + res.chunksize - 1) \div res.chunksize
        arrived == chunks - res.number_left
    IN  IF success /\ res.success
        THEN [res EXCEPT !.number_left = left,
                         !.value = SliceAssign(@, arrived * res.chunksize, result),
                         !.event = (left = 0)]
        ELSE IF ~success /\ res.success
             THEN [res EXCEPT !.number_left = left, !.success = FALSE,
                              !.value = << >>, !.exception = result,
                              !.event = (left = 0)]
             ELSE [res EXCEPT !.number_left = left, !.event = (left = 0)]

\* _set that ignores a failed chunk and leaves its entries None
MapResult_set_swallow(res, i, success, result) ==
    LET left == res.number_left - 1 IN
    IF success
    THEN [res EXCEPT !.number_left = left,
                     !.value = SliceAssign(@, i * res.chunksize, result),
                     !.event = (left = 0)]
    ELSE [res EXCEPT !.number_left = left, !.event = (left = 0)]

\* MapResult._set(i, (success, result)) for chunk i
MapResult_set(res, i, success, result) ==
    LET left == res.number_left - 1 IN
    IF success /\ res.success
    THEN [res EXCEPT !.number_left = left,
                     !.value = SliceAssign(@, i * res.chunksize, result),
                     !.event = (left = 0)]
    ELSE IF ~success /\ res.success
         THEN \* only the first exception is stored
              [res EXCEPT !.number_left = left, !.success = FALSE,
                          !.value = << >>, !.exception = result,
                          !.event = (left = 0)]
         ELSE [res EXCEPT !.number_left = left, !.event = (left = 0)]

\* the batch of chunk i: the items i*chunksize .. (i+1)*chunksize - 1
get_task(items, chunksize, i) ==
    SubSeq(items, i * chunksize + 1,
           IF (i + 1) * chunksize < Len(items) THEN (i + 1) * chunksize ELSE Len(items))

\* func(*a) for one argument tuple
call_star(a) ==
    locate_nps_single_image(a[1], a[2], a[3], a[4], a[5], a[6], a[7], a[8], a[9], a[10])

\* a worker runs list(itertools.starmap(func, batch)): the items in order, the
\* first exception ends the batch.  done holds the results so far.
RECURSIVE starmapstar(_, _, _)
starmapstar(batch, k, done) ==
    IF k > Len(batch) THEN [raised |-> FALSE, value |-> done, at |-> 0]
    ELSE LET r == call_star(batch[k]) IN
         IF r.raised THEN [raised |-> TRUE, value |-> r.value, at |-> k]
         ELSE starmapstar(batch, k + 1, Append(done, r.value))

(***************************************************************************)
(* The arguments of locate_nps_multiple_images.                            *)
(***************************************************************************)
\* the caller's tunables: values of its own, all different from each other and
\* from the defaults, or the same with a negative erosion_size
Tuned == [ball_size |-> 7, sigma |-> 2, times |-> 3, scfactor |-> 50000,
          threshold |-> 120, dilation_size |-> 6, erosion_size |-> 8,
          min_struct_size |-> 16]

ParamChoices == {Tuned, [Tuned EXCEPT !.erosion_size = -1]}

\* the image stacks: up to MaxFrames frames, at most one of them malformed
ImageStacks ==
    {s \in UNION {[1..n -> {RawImage(f) : f \in FrameLib}] : n \in 0..MaxFrames} :
        Cardinality({k \in 1..Len(s) : s[k].frame = "malformed"}) <= 1}

\* argument tuples that leave every frame id at locate's default 0
build_args_noframe(imgs, kw) ==
    [k \in 1..Len(imgs) |->
        <<imgs[k], 0, kw.ball_size, kw.sigma, kw.times, kw.scfactor,
          kw.threshold, kw.dilation_size, kw.erosion_size, kw.min_struct_size>>]

\* argument tuples with dilation_size and erosion_size in each other's place
build_args_swapped(imgs, kw) ==
    [k \in 1..Len(imgs) |->
        <<imgs[k], k - 1, kw.ball_size, kw.sigma, kw.times, kw.scfactor,
          kw.threshold, kw.erosion_size, kw.dilation_size, kw.min_struct_size>>]

\* line 267: one argument tuple per frame, f counting from 0
build_args(imgs, kw) ==
    [k \in 1..Len(imgs) |->
        <<imgs[k], k - 1, kw.ball_size, kw.sigma, kw.times, kw.scfactor,
          kw.threshold, kw.dilation_size, kw.erosion_size, kw.min_struct_size>>]

(***************************************************************************)
(* Direct calls of the pure functions, with their inputs.                  *)
(***************************************************************************)
\* label rasters of every shape up to MaxRows x MaxCols: all background, or one
\* rectangle of one label (it may touch the border)
LabelRasters ==
    UNION {UNION {
        {ZeroRaster(nr, nc)} \cup
        {RectRaster(nr, nc, r0, c0, h, w, lab) :
            <<r0, c0, h, w, lab>> \in
                {q \in (0..nr-1) \X (0..nc-1) \X (1..nr) \X (1..nc) \X (1..2) :
                    q[1] + q[3] <= nr /\ q[2] + q[4] <= nc}}
        : nc \in 1..MaxCols} : nr \in 1..MaxRows}

LabelArray(r) == [frame |-> "synthetic", ops |-> << >>, raster |-> r]

LocateCalls ==
    {[fn |-> "locate", struct_labels |-> LabelArray(r), frame |-> f] :
        r \in LabelRasters, f \in 0..(MaxFrames - 1)}

PreprocessCalls ==
    {[fn |-> "preprocess_image", image |-> RawImage(f), ball_size |-> b, sigma |-> s,
      times |-> t, scfactor |-> k, threshold |-> th, output_detail |-> d] :
        f \in FrameLib, b \in {7, 9}, s \in {1, 2}, t \in 0..MaxTimes,
        k \in {1, 100000}, th \in {120, 180}, d \in BOOLEAN}

\* rasters of every shape with up to n pixels, the pixels taken from values
RastersUpTo(n, values) ==
    UNION {UNION {[1..nr -> [1..nc -> values]] : nc \in 1..(n \div nr)} : nr \in 1..n}

\* pixel values below, at and above the thresholds tried
PixelValues == {119, 120, 121, 180}

ThresholdCalls ==
    {[fn |-> "bwimage_by_threshold",
      image |-> [frame |-> "synthetic", ops |-> << >>, pixels |-> a],
      threshold |-> th] :
        a \in RastersUpTo(MaxPixels, PixelValues), th \in {120, 180}}

\* vertex sequences of up to MaxVerts points with small coordinates
Coords == -1..1

PolyareaCalls ==
    {[fn |-> "polyarea", x |-> x, y |-> y] :
        <<x, y>> \in UNION {[1..n -> Coords] \X [1..n -> Coords] : n \in 0..MaxVerts}}

\* label rasters of up to MaxPixels pixels with labels 0 (background), 1, 2
SizesCalls ==
    {[fn |-> "get_struct_sizes", struct_labels |-> LabelArray(a)] :
        a \in RastersUpTo(MaxPixels, 0..2)}

\* cleaned edge masks of up to MaxMaskPixels pixels: 1 on an edge, 0 elsewhere
FillCalls ==
    {[fn |-> "filled", smallobjremoved |-> a] : a \in RastersUpTo(MaxMaskPixels, {0, 1})}

\* movie frames: dark, just below the threshold 500, at it, and above it
MovieFrames == {<<<<100, 20>>>>, <<<<100, 499>>>>, <<<<500, 100>>>>, <<<<30, 600>>>>}

\* movies of up to MaxFrames frames, scanned with the default threshold or 600
StartingFrameCalls ==
    {[fn |-> "get_starting_frame", frames |-> m, threshold |-> th] :
        m \in UNION {[1..n -> MovieFrames] : n \in 0..MaxFrames}, th \in {500, 600}}

(***************************************************************************)
(* State.                                                                  *)
(***************************************************************************)
VARIABLES
    images,     \* the image stack passed by the caller
    kwargs,     \* the eight tunables passed by the caller
    ncpu,       \* mps.cpu_count()
    pc,         \* where the driver is: "call", "starmap", "returned", "raised"
                \* ("idle": the driver is not called)
    args,       \* the argument tuples of line 267
    pool,       \* "none", "open" or "closed"
    taskqueue,  \* chunk numbers not yet taken by a worker, in order
    running,    \* chunk numbers a worker is processing
    result,     \* the MapResult of the starmap call
    returned,   \* what the driver returned
    raised,     \* the exception the driver let through
    failed,     \* history: the frame ids whose task raised
    overtaken,  \* history: a chunk finished while an earlier one had not
    fcall,      \* a direct call of one function: its name and arguments
    fret        \* the outcome of that call

driver_vars == <<images, kwargs, ncpu, pc, args, pool, taskqueue, running, result,
                 returned, raised, failed, overtaken>>
vars == <<driver_vars, fcall, fret>>

NoResult == [success |-> TRUE, value |-> << >>, exception |-> NoException,
             chunksize |-> 0, number_left |-> 0, event |-> FALSE]

\* the outcome of a direct call: whether it raised, and what it returned or
\* raised: the members of a returned tuple, or the one returned object
Pending == [state |-> "pending", raised |-> FALSE, tuple |-> FALSE, items |-> << >>]
ReturnedObject(out) ==
    [state |-> "returned", raised |-> out.raised, tuple |-> FALSE, items |-> <<out.value>>]
ReturnedTuple(out) ==
    [state |-> "returned", raised |-> out.raised, tuple |-> TRUE, items |-> out.value]

DriverIdle ==
    /\ args = << >>
    /\ pool = "none"
    /\ taskqueue = << >>
    /\ running = {}
    /\ result = NoResult
    /\ returned = << >>
    /\ raised = NoException
    /\ failed = {}
    /\ overtaken = FALSE

\* nothing has been called yet
Init ==
    /\ images = << >>
    /\ kwargs = Tuned
    /\ ncpu = 1
    /\ pc = "idle"
    /\ DriverIdle
    /\ fcall = [fn |-> "none"]
    /\ fret = Pending

\* the caller enters locate_nps_multiple_images with an image stack and tunables
CallDriver ==
    /\ pc = "idle"
    /\ fcall.fn = "none"
    /\ images' \in ImageStacks
    /\ kwargs' \in ParamChoices
    /\ ncpu' \in 1..MaxProcs
    /\ pc' = "call"
    /\ UNCHANGED <<args, pool, taskqueue, running, result, returned, raised, failed,
                   overtaken, fcall, fret>>

\* lines 267-269: build the arguments, create the pool, hand the chunks to it
Submit ==
    /\ pc = "call"
    /\ LET a == build_args(images, kwargs)
           chunksize == map_chunksize(Len(a), ncpu)
           res == MapResult_init(chunksize, Len(a))
       IN  /\ args' = a
           /\ result' = res
           /\ taskqueue' = [i \in 1..res.number_left |-> i - 1]
    /\ pool' = "open"
    /\ pc' = "starmap"
    /\ UNCHANGED <<images, kwargs, ncpu, running, returned, raised, failed, overtaken,
                   fcall, fret>>

\* an idle worker process takes the next chunk
WorkerTake ==
    /\ pool = "open"
    /\ taskqueue # << >>
    /\ Cardinality(running) < ncpu
    /\ running' = running \cup {Head(taskqueue)}
    /\ taskqueue' = Tail(taskqueue)
    /\ UNCHANGED <<images, kwargs, ncpu, pc, args, pool, result, returned, raised,
                   failed, overtaken, fcall, fret>>

\* a worker finishes its chunk and the result handler records it
WorkerDone(i) ==
    /\ i \in running
    /\ \E out \in {starmapstar(get_task(args, result.chunksize, i), 1, << >>)} :
       /\ result' = MapResult_set(result, i, ~out.raised, out.value)
       /\ failed' = IF out.raised
                    THEN failed \cup {i * result.chunksize + out.at - 1}
                    ELSE failed
    /\ running' = running \ {i}
    /\ overtaken' = (overtaken \/ \E j \in running : j < i)
    /\ UNCHANGED <<images, kwargs, ncpu, pc, args, pool, taskqueue, returned, raised,
                   fcall, fret>>

\* a get() that does not wait for the chunks
ready_early(res) == TRUE

\* the MapResult is ready: get() stops waiting
ready(res) == res.event

\* lines 269-271: get() has the results; close the pool and return them
Return ==
    /\ pc = "starmap"
    /\ ready(result)
    /\ result.success
    /\ returned' = result.value
    /\ pool' = "closed"
    /\ pc' = "returned"
    /\ UNCHANGED <<images, kwargs, ncpu, args, taskqueue, running, result, raised,
                   failed, overtaken, fcall, fret>>

\* line 269: get() re-raises the stored exception; line 270 is not reached
Reraise ==
    /\ pc = "starmap"
    /\ ready(result)
    /\ ~result.success
    /\ raised' = result.exception
    /\ pc' = "raised"
    /\ UNCHANGED <<images, kwargs, ncpu, args, pool, taskqueue, running, result,
                   returned, failed, overtaken, fcall, fret>>

\* a direct call of locate
CallLocate ==
    /\ pc = "idle"
    /\ fcall.fn = "none"
    /\ \E c \in LocateCalls :
          /\ fcall' = c
          /\ fret' = ReturnedObject(Ok(locate(c.struct_labels, c.frame)))
    /\ UNCHANGED driver_vars

\* a direct call of preprocess_image
CallPreprocess ==
    /\ pc = "idle"
    /\ fcall.fn = "none"
    /\ \E c \in PreprocessCalls :
          /\ fcall' = c
          /\ LET out == preprocess_image(c.image, c.ball_size, c.sigma, c.times,
                                         c.scfactor, c.threshold, c.output_detail)
             IN  fret' = IF c.output_detail /\ ~out.raised
                         THEN ReturnedTuple(out) ELSE ReturnedObject(out)
    /\ UNCHANGED driver_vars

\* a direct call of bwimage_by_threshold
CallThreshold ==
    /\ pc = "idle"
    /\ fcall.fn = "none"
    /\ \E c \in ThresholdCalls :
          /\ fcall' = c
          /\ fret' = ReturnedObject(bwimage_by_threshold(c.image, c.threshold))
    /\ UNCHANGED driver_vars

\* a direct call of polyarea
CallPolyarea ==
    /\ pc = "idle"
    /\ fcall.fn = "none"
    /\ \E c \in PolyareaCalls :
          /\ fcall' = c
          /\ fret' = ReturnedObject(Ok(polyarea(c.x, c.y)))
    /\ UNCHANGED driver_vars

\* a direct call of get_struct_sizes; the returned list is the one object
CallSizes ==
    /\ pc = "idle"
    /\ fcall.fn = "none"
    /\ \E c \in SizesCalls :
          /\ fcall' = c
          /\ fret' = ReturnedObject(Ok([list |-> get_struct_sizes(c.struct_labels)]))
    /\ UNCHANGED driver_vars

\* the hole-filling step of find_structs on a concrete edge mask
CallFill ==
    /\ pc = "idle"
    /\ fcall.fn = "none"
    /\ \E c \in FillCalls :
          /\ fcall' = c
          /\ fret' = ReturnedObject(Ok([pixels |-> filled(c.smallobjremoved)]))
    /\ UNCHANGED driver_vars

\* a direct call of get_starting_frame
CallStartingFrame ==
    /\ pc = "idle"
    /\ fcall.fn = "none"
    /\ \E c \in StartingFrameCalls :
          /\ fcall' = c
          /\ fret' = ReturnedObject(Ok(get_starting_frame(c.frames, c.threshold)))
    /\ UNCHANGED driver_vars

Next ==
    \/ CallDriver
    \/ Submit
    \/ WorkerTake
    \/ \E i \in running : WorkerDone(i)
    \/ Return
    \/ Reraise
    \/ CallLocate
    \/ CallPreprocess
    \/ CallThreshold
    \/ CallPolyarea
    \/ CallSizes
    \/ CallFill
    \/ CallStartingFrame

Spec == Init /\ [][Next]_vars

\* The pool's processes run, and the driver's own thread runs: each of their
\* steps is weakly fair.  WorkerDone is enabled exactly when a chunk is running,
\* so its weak fairness is written out with that condition.
FairSpec ==
    /\ Spec
    /\ WF_vars(Submit)
    /\ WF_vars(WorkerTake)
    /\ ([]<>(running = {}) \/ []<><<\E i \in running : WorkerDone(i)>>_vars)
    /\ WF_vars(Return)
    /\ WF_vars(Reraise)

(***************************************************************************)
(* Properties.                                                             *)
(***************************************************************************)
\* the result of the task of the k-th input frame, computed directly
TaskOf(k) ==
    locate_nps_single_image(images[k], k - 1, kwargs.ball_size, kwargs.sigma,
                            kwargs.times, kwargs.scfactor, kwargs.threshold,
                            kwargs.dilation_size, kwargs.erosion_size,
                            kwargs.min_struct_size)

Frames(imgs) == [k \in 1..Len(imgs) |-> imgs[k].frame]

RECURSIVE TotalStructs(_)
TotalStructs(imgs) ==
    IF imgs = << >> THEN 0 ELSE NStructs(Head(imgs).frame) + TotalStructs(Tail(imgs))

\* the rows of all fragments of a returned list, in list order
RECURSIVE ConcatRows(_)
ConcatRows(res) ==
    IF res = << >> THEN << >> ELSE Head(res)[1].rows \o ConcatRows(Tail(res))

AllBackground(raster) ==
    \A r \in 1..NRows(raster) : \A c \in 1..NCols(raster) : raster[r][c] = 0

\* C1: when locate_nps_multiple_images returns, the i-th entry of the returned
\* list is the result of the task submitted for the i-th input frame (frame id
\* i), in whatever order the worker tasks completed.
C1_SubmissionOrder ==
    pc = "returned" =>
        /\ Len(returned) = Len(images)
        /\ \A k \in 1..Len(images) :
              /\ returned[k] = TaskOf(k).value
              /\ returned[k][2].frame = images[k].frame

\* C1 witness: a run returned three or more frames' results although a later
\* chunk finished before an earlier one, and the first two frames differ.
C1_Witness ==
    /\ pc = "returned"
    /\ overtaken
    /\ Len(images) >= 3
    /\ images[1].frame # images[2].frame

\* C2: in every returned result each structure record's frame field is the
\* 0-based position of the input frame it was derived from, and so a valid
\* index into the input sequence.
C2_FrameTag ==
    pc = "returned" =>
        \A k \in 1..Len(returned) :
            /\ returned[k][2].frame = images[k].frame
            /\ \A j \in 1..Len(returned[k][1].rows) :
                  /\ returned[k][1].rows[j].frame = k - 1
                  /\ returned[k][1].rows[j].frame \in 0..(Len(images) - 1)

\* C2 witness: a returned result with records for two different frames, after
\* chunks finished out of order.
C2_Witness ==
    /\ pc = "returned"
    /\ overtaken
    /\ \E k \in 1..Len(returned) : \E m \in 1..Len(returned) :
          k < m /\ returned[k][1].rows # << >> /\ returned[m][1].rows # << >>

C5_ErrorNamesFrame ==
    pc = "raised" =>
        /\ "frame" \in DOMAIN raised
        /\ raised.frame \in failed

\* C6: once the task of a frame has raised, the driver never returns a result:
\* nothing is returned in place of the failed frame, and a returned list holds
\* the genuine result of every frame.
C6_NoStandIn ==
    /\ failed # {} => (pc # "returned" /\ returned = << >>)
    /\ pc = "returned" => \A k \in 1..Len(images) : ~TaskOf(k).raised

\* C6 witness: the driver raised after one frame's task failed while another
\* frame's task had succeeded.
C6_Witness ==
    /\ pc = "raised"
    /\ failed # {}
    /\ \E k \in 1..Len(images) : ~TaskOf(k).raised

InvalidParams(kw) == kw.ball_size < 0 \/ kw.dilation_size < 0 \/ kw.erosion_size < 0

\* C7 (as claimed): with an invalid tunable the driver submits nothing to the
\* pool and runs no processing step; it ends with a parameter error.
C7_RejectedBeforeSubmit ==
    (pc # "idle" /\ InvalidParams(kwargs)) =>
        /\ pool = "none"
        /\ args = << >>
        /\ taskqueue = << >>
        /\ running = {}
        /\ failed = {}
        /\ pc \in {"call", "raised"}
        /\ pc = "raised" => raised.exc = "ParameterError"

NothingPending == taskqueue = << >> /\ running = {} /\ result.number_left = 0

ValidInput ==
    /\ ~InvalidParams(kwargs)
    /\ \A k \in 1..Len(images) : images[k].frame # "malformed"

\* C8: the driver leaves starmap only when no chunk is queued or in progress,
\* and under fair scheduling every call ends: it returns, or, when the input
\* makes a task raise, it may end by raising instead.
C8_ReturnsAfterAll ==
    /\ [](pc \in {"returned", "raised"} => NothingPending)
    /\ (pc = "call") ~> (pc = "returned" \/ (pc = "raised" /\ ~ValidInput))

\* C8 witness: the driver returned three or more frames with nothing pending,
\* after chunks finished out of order.
C8_Witness ==
    /\ pc = "returned"
    /\ Len(images) >= 3
    /\ overtaken
    /\ NothingPending

\* the filters applied to a frame by the pipeline run with tunables kw
PreprocessOps(b, s, t, k, th) ==
    << <<"white_tophat", b>> >> \o [i \in 1..t |-> <<"gaussian", s>>]
        \o << <<"white_tophat", b>>, <<"scale", k>>, <<"threshold", th>> >>

SegmentOps(d, e, m) ==
    << <<"sobel", 0>>, <<"dilation", d>>, <<"remove_small_objects", m>>,
       <<"flood", 0>>, <<"erosion", e>>, <<"remove_small_objects", m>>,
       <<"label", 0>>, <<"watershed", 0>> >>

\* C9: every returned per-frame result is measure(segment(preprocess(frame)))
\* tagged with the frame id, and the filters were given the caller's values:
\* ball_size, sigma, times, scfactor and threshold in preprocess_image,
\* dilation_size, erosion_size and min_struct_size in find_structs.
C9_Composition ==
    pc = "returned" =>
        \A k \in 1..Len(returned) :
            /\ returned[k][2].frame = images[k].frame
            /\ returned[k][2].ops =
                  PreprocessOps(kwargs.ball_size, kwargs.sigma, kwargs.times,
                                kwargs.scfactor, kwargs.threshold)
                  \o SegmentOps(kwargs.dilation_size, kwargs.erosion_size,
                                kwargs.min_struct_size)
            /\ returned[k][1] = locate(returned[k][2], k - 1)

\* C9 witness: the driver returned two or more frames for the caller's own
\* (non-default, pairwise different) tunables.
C9_Witness ==
    /\ pc = "returned"
    /\ kwargs = Tuned
    /\ Len(images) >= 2

\* C10: preprocess_image applies background subtraction, `times` smoothing
\* passes, background subtraction, scaling and thresholding in this order, each
\* to the output of the step before it, starting from the frame.
C10_StepOrder ==
    (fcall.fn = "preprocess_image" /\ fret.state = "returned" /\ ~fret.raised) =>
        LET rmbg == << <<"white_tophat", fcall.ball_size>> >>
            sm == rmbg \o [i \in 1..fcall.times |-> <<"gaussian", fcall.sigma>>]
            sm_rmbg == Append(sm, <<"white_tophat", fcall.ball_size>>)
            sc == Append(sm_rmbg, <<"scale", fcall.scfactor>>)
            bw == Append(sc, <<"threshold", fcall.threshold>>)
            Img(ops) == [frame |-> fcall.image.frame, ops |-> ops]
        IN  IF fcall.output_detail
            THEN /\ fret.tuple
                 /\ fret.items = <<Img(bw), Img(rmbg), Img(sm), Img(sm_rmbg), Img(sc)>>
            ELSE /\ ~fret.tuple
                 /\ fret.items = <<Img(bw)>>

\* C10 witness: preprocess_image returned its detailed output after two or more
\* smoothing passes.
C10_Witness ==
    /\ fcall.fn = "preprocess_image"
    /\ fret.state = "returned"
    /\ ~fret.raised
    /\ fcall.output_detail
    /\ fcall.times >= 2

\* C11: bwimage_by_threshold gives every pixel the value 1 when it is at or
\* above the threshold (so also when it equals the threshold) and 0 otherwise;
\* the output has the shape of the input and holds only the values 0 and 1.
C11_Threshold ==
    (fcall.fn = "bwimage_by_threshold" /\ fret.state = "returned") =>
        /\ ~fret.raised
        /\ LET in == fcall.image.pixels
               out == fret.items[1].pixels
           IN  /\ Len(out) = Len(in)
               /\ \A r \in 1..Len(in) :
                     /\ Len(out[r]) = Len(in[r])
                     /\ \A c \in 1..Len(in[r]) :
                           /\ in[r][c] >= fcall.threshold => out[r][c] = ToFloat(1)
                           /\ in[r][c] < fcall.threshold => out[r][c] = ToFloat(0)
                           /\ in[r][c] = fcall.threshold => out[r][c] = ToFloat(1)
                           /\ out[r][c] \in {ToFloat(0), ToFloat(1)}

\* C11 witness: bwimage_by_threshold returned for an image with a pixel below,
\* a pixel equal to and a pixel above the threshold.
C11_Witness ==
    /\ fcall.fn = "bwimage_by_threshold"
    /\ fret.state = "returned"
    /\ \E r1, r2, r3 \in 1..Len(fcall.image.pixels) :
          \E c1 \in 1..Len(fcall.image.pixels[r1]) :
          \E c2 \in 1..Len(fcall.image.pixels[r2]) :
          \E c3 \in 1..Len(fcall.image.pixels[r3]) :
              /\ fcall.image.pixels[r1][c1] < fcall.threshold
              /\ fcall.image.pixels[r2][c2] = fcall.threshold
              /\ fcall.image.pixels[r3][c3] > fcall.threshold

\* the successor of index i in a cycle of n indices 1..n
CyclicNext(i, n) == IF i = n THEN 1 ELSE i + 1

\* sum_i x_i*y_(i+1) - sum_i y_i*x_(i+1), indices taken cyclically
ShoelaceSum(x, y) ==
    SumSeq([i \in 1..Len(x) |-> x[i] * y[CyclicNext(i, Len(x))]])
        - SumSeq([i \in 1..Len(x) |-> y[i] * x[CyclicNext(i, Len(x))]])

\* C12: polyarea returns half the absolute value of the cyclic Shoelace sum of
\* its vertices, which is never negative whatever their orientation, and the
\* size of every record that locate returns is such a value.
C12_Shoelace ==
    /\ (fcall.fn = "polyarea" /\ fret.state = "returned") =>
          /\ ~fret.raised
          /\ fret.items[1] = Frac(Abs(ShoelaceSum(fcall.x, fcall.y)), 2)
          /\ fret.items[1].n >= 0
          /\ fret.items[1].d > 0
    /\ (fcall.fn = "locate" /\ fret.state = "returned") =>
          \A j \in 1..Len(fret.items[1].rows) :
              /\ fret.items[1].rows[j].size.n >= 0
              /\ fret.items[1].rows[j].size.d > 0

\* C12 witness: polyarea returned a positive area for a triangle whose
\* Shoelace sum is negative.
C12_Witness ==
    /\ fcall.fn = "polyarea"
    /\ fret.state = "returned"
    /\ Len(fcall.x) = 3
    /\ ShoelaceSum(fcall.x, fcall.y) < 0
    /\ fret.items[1].n > 0

\* the raster holds one filled rectangle of height h and width w with its top
\* left pixel at row r0, column c0 (0-based), and background on every border
InteriorRect(raster, r0, c0, h, w) ==
    /\ r0 >= 1 /\ c0 >= 1 /\ h >= 1 /\ w >= 1
    /\ r0 + h <= NRows(raster) - 1
    /\ c0 + w <= NCols(raster) - 1
    /\ \E lab \in 1..2 :
          raster = RectRaster(NRows(raster), NCols(raster), r0, c0, h, w, lab)

\* C13 (as claimed): for a raster with a single filled w x h rectangle away
\* from the border locate reports exactly one record, of size w*h.
C13_RectArea ==
    (fcall.fn = "locate" /\ fret.state = "returned") =>
        \A r0 \in 1..MaxRows : \A c0 \in 1..MaxCols :
        \A h \in 1..MaxRows : \A w \in 1..MaxCols :
            InteriorRect(fcall.struct_labels.raster, r0, c0, h, w) =>
                /\ Len(fret.items[1].rows) = 1
                /\ fret.items[1].rows[1].size = Frac(w * h, 1)

\* C13 (what the code computes): the one record's size is the area inside the
\* level-0 contour, which runs through the background pixels next to the
\* rectangle: (w+1)*(h+1) - 2, never w*h.
C13_ContourArea ==
    (fcall.fn = "locate" /\ fret.state = "returned") =>
        \A r0 \in 1..MaxRows : \A c0 \in 1..MaxCols :
        \A h \in 1..MaxRows : \A w \in 1..MaxCols :
            InteriorRect(fcall.struct_labels.raster, r0, c0, h, w) =>
                /\ Len(fret.items[1].rows) = 1
                /\ fret.items[1].rows[1].size = Frac((w + 1) * (h + 1) - 2, 1)
                /\ fret.items[1].rows[1].size # Frac(w * h, 1)

\* C13 witness: locate returned for a 2 x 2 rectangle away from the border.
C13_Witness ==
    /\ fcall.fn = "locate"
    /\ fret.state = "returned"
    /\ InteriorRect(fcall.struct_labels.raster, 1, 1, 2, 2)

\* the labels of the raster are exactly 1..N (besides the background 0)
LabelsAre(raster, N) ==
    {raster[p[1]][p[2]] : p \in Cells(raster)} \ {0} = 1..N

\* C14 (as claimed): for a raster whose labels are 1..N get_struct_sizes
\* returns N entries, the k-th being the number of pixels with label k, the
\* largest label N included.
C14_AllSizes ==
    (fcall.fn = "get_struct_sizes" /\ fret.state = "returned") =>
        \A N \in 1..2 :
            LabelsAre(fcall.struct_labels.raster, N) =>
                /\ Len(fret.items[1].list) = N
                /\ \A k \in 1..N :
                      fret.items[1].list[k] = CountEqual(fcall.struct_labels.raster, k)

\* C14 (what the code computes): the entry of the largest label is missing;
\* the list has N - 1 entries, the sizes of the labels 1..N-1.
C14_DropsLargest ==
    (fcall.fn = "get_struct_sizes" /\ fret.state = "returned") =>
        \A N \in 1..2 :
            LabelsAre(fcall.struct_labels.raster, N) =>
                /\ Len(fret.items[1].list) = N - 1
                /\ \A k \in 1..(N - 1) :
                      fret.items[1].list[k] = CountEqual(fcall.struct_labels.raster, k)

\* C14 witness: get_struct_sizes returned for a raster with the labels 1 and 2.
C14_Witness ==
    /\ fcall.fn = "get_struct_sizes"
    /\ fret.state = "returned"
    /\ LabelsAre(fcall.struct_labels.raster, 2)

\* the zero pixels that a path of zero pixels joins to one of the pixels from
RECURSIVE ZeroReach(_, _)
ZeroReach(mask, from) ==
    LET step == {q \in Cells(mask) : mask[q[1]][q[2]] = 0
                    /\ \E p \in from : Neighbours(p, q)}
    IN  IF step \subseteq from THEN from ELSE ZeroReach(mask, from \cup step)

\* the zero pixels reachable from the corner pixel (0,0) through zero pixels
FromCorner(mask) ==
    ZeroReach(mask, IF mask[1][1] = 0 THEN {<<1, 1>>} ELSE {})

\* the zero pixels joined to the image border through zero pixels
FromBorder(mask) ==
    ZeroReach(mask, {p \in Cells(mask) : mask[p[1]][p[2]] = 0
                        /\ (p[1] \in {1, NRows(mask)} \/ p[2] \in {1, NCols(mask)})})

\* C15 (as claimed): after the hole filling a pixel is foreground exactly when
\* no path of zero pixels joins it to the corner pixel (0,0), and every zero
\* pixel joined to the image border through zero pixels stays background,
\* whatever the edge mask.
C15_FillEnclosed ==
    (fcall.fn = "filled" /\ fret.state = "returned") =>
        \A p \in Cells(fcall.smallobjremoved) :
            /\ fret.items[1].pixels[p[1]][p[2]] = 1
                    <=> p \notin FromCorner(fcall.smallobjremoved)
            /\ p \in FromBorder(fcall.smallobjremoved)
                    => fret.items[1].pixels[p[1]][p[2]] = 0

\* C15 (what the code computes when the corner pixel is background): a pixel
\* is foreground exactly when no path of zero pixels joins it to the corner.
C15_FillFromBackgroundCorner ==
    (fcall.fn = "filled" /\ fret.state = "returned"
            /\ fcall.smallobjremoved[1][1] = 0) =>
        \A p \in Cells(fcall.smallobjremoved) :
            fret.items[1].pixels[p[1]][p[2]] = 1
                <=> p \notin FromCorner(fcall.smallobjremoved)

\* C15 (what the code computes when the corner pixel is an edge pixel): the
\* edge pixels connected to the corner become background and every other
\* pixel, each zero pixel included, becomes foreground.
C15_FillFromEdgeCorner ==
    (fcall.fn = "filled" /\ fret.state = "returned"
            /\ fcall.smallobjremoved[1][1] = 1) =>
        /\ fret.items[1].pixels[1][1] = 0
        /\ \A p \in Cells(fcall.smallobjremoved) :
              fcall.smallobjremoved[p[1]][p[2]] = 0
                  => fret.items[1].pixels[p[1]][p[2]] = 1

\* C15 witness: the hole filling returned for a 3 x 3 mask whose corner pixel
\* is background and in which an edge line from the top to the bottom border
\* separates the right column from the corner; the right column, zero and on
\* the border, came out as foreground.
C15_Witness ==
    /\ fcall.fn = "filled"
    /\ fret.state = "returned"
    /\ fcall.smallobjremoved = <<<<0, 1, 0>>, <<0, 1, 0>>, <<0, 1, 0>>>>
    /\ <<2, 3>> \in FromBorder(fcall.smallobjremoved)
    /\ fret.items[1].pixels = <<<<0, 1, 1>>, <<0, 1, 1>>, <<0, 1, 1>>>>

\* the largest pixel of a frame, found by comparing it with every pixel
Brightest(frame) ==
    CHOOSE v \in {frame[r][c] : r \in 1..Len(frame), c \in 1..Len(frame[1])} :
        \A r \in 1..Len(frame) : \A c \in 1..Len(frame[r]) : frame[r][c] <= v

\* the 0-based indices j of the frames that reach the threshold right after a
\* frame that stays below it
Transitions(frames, threshold) ==
    {j \in 1..(Len(frames) - 1) :
        /\ Brightest(frames[j]) < threshold
        /\ Brightest(frames[j + 1]) >= threshold}

\* C16: get_starting_frame returns the smallest index i+1 at which a frame
\* below the threshold is followed by one at or above it, so the returned
\* frame reaches the threshold; without such a transition (fewer than two
\* frames, all frames dark, or a bright first frame and no later transition)
\* it returns None.
C16_StartingFrame ==
    (fcall.fn = "get_starting_frame" /\ fret.state = "returned") =>
        /\ ~fret.raised
        /\ IF Transitions(fcall.frames, fcall.threshold) = {}
           THEN fret.items[1] = PyNone
           ELSE /\ fret.items[1].type = "int"
                /\ fret.items[1].value \in Transitions(fcall.frames, fcall.threshold)
                /\ \A j \in Transitions(fcall.frames, fcall.threshold) :
                      fret.items[1].value <= j
                /\ Brightest(fcall.frames[fret.items[1].value + 1]) >= fcall.threshold
        /\ Len(fcall.frames) < 2 => fret.items[1] = PyNone
        /\ (\A k \in 1..Len(fcall.frames) : Brightest(fcall.frames[k]) < fcall.threshold)
              => fret.items[1] = PyNone

\* C16 witness: the movie has two dark-to-bright transitions, at the indices 1
\* and 3, and the first of them was returned.
C16_Witness ==
    /\ fcall.fn = "get_starting_frame"
    /\ fret.state = "returned"
    /\ Transitions(fcall.frames, fcall.threshold) = {1, 3}
    /\ fret.items[1] = PyInt(1)

=============================================================================
